---- MODULE Spec2Model ----
(***************************************************************************)
(* Model of the request handlers of app.py (GlobalTech&Trade Flask site):  *)
(* POST /contact (contact), POST /api/send-demo-confirmation               *)
(* (send_demo_confirmation), GET /blog/<slug> (blog_article) and           *)
(* GET /health (health_check), with the Resend HTTP transport as the       *)
(* environment.  One form/API/blog request is in flight at a time; the two *)
(* blocking http_requests.post calls are the points where the handler      *)
(* waits.  A health probe can be served at any moment.  ConcSpec runs a    *)
(* second request beside the first, ClockSpec lets the wall clock advance  *)
(* between submissions, and SmtpSpec is the SMTP dispatcher described by   *)
(* the specification.                                                      *)
(***************************************************************************)
EXTENDS Integers, Sequences, FiniteSets, TLC

(* ------------------------------ bounds -------------------------------- *)
\* longest email value submitted
MaxEmailLen == 3
\* longest name value submitted
MaxNameLen == 1
\* latest reading of the clock, in seconds from the start of the process
MaxClock == 1

(* ------------------------------ strings ------------------------------- *)
\* A Python str is a finite sequence of one-character strings.
StrsUpTo(alphabet, n) == UNION {[1..k -> alphabet] : k \in 0..n}

EmailChars == {" ", "a", "@", "."}
NameChars == {" ", "J"}

IsSpace(c) == c = " "

RECURSIVE lstrip(_)
lstrip(s) == IF s # <<>> /\ IsSpace(Head(s)) THEN lstrip(Tail(s)) ELSE s

RECURSIVE rstrip(_)
rstrip(s) == IF s # <<>> /\ IsSpace(s[Len(s)])
             THEN rstrip(SubSeq(s, 1, Len(s) - 1)) ELSE s

\* str.strip(): whitespace removed at both ends
strip(s) == rstrip(lstrip(s))

\* c in s
In(c, s) == \E i \in 1..Len(s) : s[i] = c

(* ---------------------------- JSON / form values ----------------------- *)
\* A field of the submitted mapping: absent, or a value of some JSON type.
Absent == [t |-> "absent", s |-> <<>>]
Null == [t |-> "null", s |-> <<>>]
Num == [t |-> "num", s |-> <<>>]
Str(s) == [t |-> "str", s |-> s]

\* dict.get(key, default) / request.form.get(key, default)
get(v, default) == IF v.t = "absent" THEN default ELSE v

\* hasattr(v, 'strip'): only str values have the method
HasStrip(v) == v.t = "str"

EmailValues == {Absent, Null, Num} \cup {Str(s) : s \in StrsUpTo(EmailChars, MaxEmailLen)}
NameValues == {Absent, Num} \cup {Str(s) : s \in StrsUpTo(NameChars, MaxNameLen)}
\* service and message are only tested for emptiness: absent, empty, blank, filled
ServiceValues == {Absent, Str(<<>>), Str(<<" ">>), Str(<<"s">>)}
MessageValues == {Absent, Str(<<>>), Str(<<" ">>), Str(<<"m">>)}

\* n times the character c
Repeat(c, n) == [i \in 1..n |-> c]
\* messages of the contact form: also one of 9 and one of 10 characters, and
\* one of 10 characters of which 8 remain after trimming
FormMessageValues ==
    MessageValues \cup {Str(Repeat("m", 9)), Str(Repeat("m", 10)),
                        Str(<<" ">> \o Repeat("m", 8) \o <<" ">>)}

\* What request.get_json() is applied to.
\*   "no_json_type"   the request does not declare a JSON content type
\*   "malformed"      JSON content type, body empty or not parseable
\*   "null"           the JSON literal null
\*   "falsy"          0, false, "", []
\*   "empty_object"   {}
\*   "truthy_nondict" a non-empty list or string, a non-zero number, true
\*   "object"         a non-empty JSON object
NonObjectBodies == {"truthy_nondict", "malformed", "no_json_type", "null",
                    "falsy", "empty_object"}

ApiRequests ==
    {[body |-> b, email |-> Absent, name |-> Absent,
      service |-> Absent, message |-> Absent] : b \in NonObjectBodies}
    \cup [body : {"object"}, email : EmailValues, name : NameValues,
          service : ServiceValues, message : MessageValues]

\* Form values are always strings (or absent).
FormRequests ==
    [body : {"form"},
     email : {v \in EmailValues : v.t \in {"absent", "str"}},
     name : {v \in NameValues : v.t \in {"absent", "str"}},
     service : ServiceValues, message : FormMessageValues]

NoRequest == [body |-> "none", email |-> Absent, name |-> Absent,
              service |-> Absent, message |-> Absent]

(* ------------------------------ state --------------------------------- *)
VARIABLES
    key,      \* os.environ['RESEND_API_KEY'] ("" when not set)
    route,    \* the handler serving the request in flight
    req,      \* the submitted payload
    pc,       \* the handler's position
    resp,     \* the HTTP response produced
    events,   \* the transport calls of this request, in order
    log,      \* app.logger entries of this request, in order
    flashes,  \* flash() messages of this request, in order
    raised,   \* the exception raised inside the handler ("none" if none)
    health,   \* the response to the latest GET /health probe
    prev,     \* history: the previous API request, as it ended
    now,      \* the wall clock read by datetime.now()
    composed, \* the messages composed for the request in flight
    other     \* a second request, handled at the same time as the first

vars == <<key, route, req, pc, resp, events, log, flashes, raised, health, prev,
          now, composed, other>>

NoResp == [status |-> 0, json |-> FALSE, body |-> [none |-> TRUE]]

Json(status, body) == [status |-> status, json |-> TRUE, body |-> body]
Html(status, template) ==
    [status |-> status, json |-> FALSE, body |-> [template |-> template]]

Entry(level, msg) == [level |-> level, msg |-> msg]
Event(ev, rcpt, code) == [ev |-> ev, rcpt |-> rcpt, code |-> code]

NoPrev == [req |-> NoRequest, events |-> <<>>, resp |-> NoResp]

\* nothing composed: no request in flight, or it ended before line 1761
NoComposed == [none |-> TRUE]

\* a request slot with no request in it
NoOther ==
    [route |-> "none", req |-> NoRequest, pc |-> "idle", resp |-> NoResp,
     events |-> <<>>, log |-> <<>>, flashes |-> <<>>, raised |-> "none",
     composed |-> NoComposed]

Init ==
    /\ key \in {"", "re_key"}
    /\ health = NoResp
    /\ prev = NoPrev
    /\ now = 0
    /\ composed = NoComposed
    /\ other = NoOther
    /\ route = "none"
    /\ req = NoRequest
    /\ pc = "idle"
    /\ resp = NoResp
    /\ events = <<>>
    /\ log = <<>>
    /\ flashes = <<>>
    /\ raised = "none"

(* ---------------------------- exceptions ------------------------------ *)
\* Exceptions that can be raised inside send_demo_confirmation's try block:
\*   UnsupportedMediaType, BadRequest   werkzeug HTTPExceptions of get_json()
\*   AttributeError                     .get / .strip on a value without it
\*   Timeout, ConnectionError           requests exceptions of post()
TransportExceptions == {"Timeout", "ConnectionError"}
Exceptions == {"UnsupportedMediaType", "BadRequest", "AttributeError"}
              \cup TransportExceptions

\* str(e)
ExcText(e) ==
    CASE e = "UnsupportedMediaType" -> "415 Unsupported Media Type"
      [] e = "BadRequest" -> "400 Bad Request: Failed to decode JSON object"
      [] e = "AttributeError" -> "object has no attribute"
      [] e = "Timeout" -> "Read timed out. (read timeout=30)"
      [] e = "ConnectionError" -> "Max retries exceeded with url: /emails"

ExcTexts == {ExcText(e) : e \in Exceptions}

Caught_OnlyTransport(e) == e \in TransportExceptions

\* `except Exception as e`: every exception above derives from Exception
Caught(e) == e \in Exceptions

\* The body returned by the except clause
ErrorBody(e) == [success |-> FALSE, error |-> ExcText(e)]

\* What becomes of an exception raised in the try block: the except clause
\* answers, or (were it not caught) Flask's errorhandler(500) does.
HandleException(e, lg) ==
    IF Caught(e)
    THEN [resp |-> Json(500, ErrorBody(e)),
          log |-> Append(lg, Entry("error", "Email sending error"))]
    ELSE [resp |-> Html(500, "500.html"),
          log |-> Append(lg, Entry("error", "Server Error"))]

(* ------------------ POST /api/send-demo-confirmation ------------------- *)
\* request.get_json(): the exception it raises, "none" if it returns.
\* Without a JSON content type Flask >= 2.1 raises UnsupportedMediaType and
\* older releases return None; `legacy` selects the older behaviour.
get_json_raises(r, legacy) ==
    CASE r.body = "malformed" -> "BadRequest"
      [] r.body = "no_json_type" /\ ~legacy -> "UnsupportedMediaType"
      [] OTHER -> "none"

\* `not data`
NoData(r) == r.body \in {"no_json_type", "null", "falsy", "empty_object"}

\* data.get('email', '') and data.get('name', '')
email_field(r) == get(r.email, Str(<<>>))
name_field(r) == get(r.name, Str(<<>>))

\* data.get('email', '').strip()
visitor_email(r) == strip(email_field(r).s)
\* data.get('name', '').strip()
visitor_name(r) == strip(name_field(r).s)
\* data.get('service', '')
api_service(r) == get(r.service, Str(<<>>)).s
\* data.get('message', 'None')
api_message(r) == get(r.message, Str(<<"N", "o", "n", "e">>)).s

\* `not visitor_email or '@' not in visitor_email`
InvalidEmail(e) == e = <<>> \/ ~In("@", e)

KeyMissing_Never(k) == FALSE

\* `not RESEND_API_KEY`
KeyMissing(k) == k = ""

SkipBody == [success |-> TRUE,
             message |-> "Demo recorded (email service not configured)"]
SentBody == [success |-> TRUE, message |-> "Emails sent successfully"]

PostOrder_CompanyFirst == <<"company", "visitor">>

\* the two posts, in program order
PostOrder == <<"visitor", "company">>
FirstRecipient == PostOrder[1]
SecondRecipient == PostOrder[2]

\* timeout=30 of both posts
PostTimeout == 30

\* 'to' of the company post
CompanyAddress == <<"info@globaltechandtrade.com">>

Compose_StampsBoth(r, t) ==
    [visitor_subject |-> "Demo Request Confirmed - GlobalTechAndTrade",
     visitor_html |-> [name |-> visitor_name(r), email |-> visitor_email(r),
                       service |-> api_service(r), time |-> t],
     company_subject |-> [text |-> "New Demo Request", name |-> visitor_name(r),
                          service |-> api_service(r)],
     company_html |-> [name |-> visitor_name(r), email |-> visitor_email(r),
                       service |-> api_service(r), message |-> api_message(r),
                       time |-> t]]

\* visitor_html and company_html, and the two subjects, as composed at time t:
\* each as the values interpolated in its text (phone and company, which no
\* modelled payload carries, are left out). company_html alone carries
\* datetime.now().
Compose(r, t) ==
    [visitor_subject |-> "Demo Request Confirmed - GlobalTechAndTrade",
     visitor_html |-> [name |-> visitor_name(r), email |-> visitor_email(r),
                       service |-> api_service(r)],
     company_subject |-> [text |-> "New Demo Request", name |-> visitor_name(r),
                          service |-> api_service(r)],
     company_html |-> [name |-> visitor_name(r), email |-> visitor_email(r),
                       service |-> api_service(r), message |-> api_message(r),
                       time |-> t]]

\* http_requests.post(...) is called for `rcpt`: the call with what it carries
\* of the request (recipient list, the name and service interpolated in the
\* subject and html), the subject and html of the composition c, and its
\* timeout.
Post(rcpt, r, c) ==
    [ev |-> "post_start", rcpt |-> rcpt, code |-> 0,
     timeout |-> PostTimeout,
     to |-> IF rcpt = "visitor" THEN visitor_email(r) ELSE CompanyAddress,
     name |-> visitor_name(r),
     service |-> api_service(r),
     subject |-> IF rcpt = "visitor" THEN c.visitor_subject ELSE c.company_subject,
     html |-> IF rcpt = "visitor" THEN c.visitor_html ELSE c.company_html]

\* The handler from its entry to its first return, raise, or blocking post.
\* Result: the position reached with the response, log, events and exception.
Prefix(r, k, legacy) ==
    LET exc(e) == LET h == HandleException(e, <<>>) IN
                  [pc |-> "done", resp |-> h.resp, log |-> h.log,
                   events |-> <<>>, raised |-> e, composed |-> NoComposed]
        ret(rs, lg) == [pc |-> "done", resp |-> rs, log |-> lg,
                        events |-> <<>>, raised |-> "none",
                        composed |-> NoComposed]
    IN
    IF get_json_raises(r, legacy) # "none" THEN exc(get_json_raises(r, legacy))
    ELSE IF NoData(r)
    THEN ret(Json(400, [success |-> FALSE, error |-> "No data provided"]), <<>>)
    ELSE IF r.body # "object" THEN exc("AttributeError")
    ELSE IF ~HasStrip(email_field(r)) THEN exc("AttributeError")
    ELSE IF ~HasStrip(name_field(r)) THEN exc("AttributeError")
    ELSE IF InvalidEmail(visitor_email(r))
    THEN ret(Json(400, [success |-> FALSE, error |-> "Invalid email"]), <<>>)
    ELSE IF KeyMissing(k)
    THEN ret(Json(200, SkipBody),
             <<Entry("warning", "RESEND_API_KEY not configured - skipping email")>>)
    ELSE [pc |-> "visitor_post", resp |-> NoResp, log |-> <<>>,
          events |-> <<Post(FirstRecipient, r, Compose(r, now))>>,
          raised |-> "none", composed |-> Compose(r, now)]

Serve_Dedup(r) ==
    /\ \E legacy \in BOOLEAN :
         LET out == IF prev.req = r /\ prev.resp.status = 200
                    THEN [pc |-> "done", resp |-> prev.resp, log |-> <<>>,
                          events |-> <<>>, raised |-> "none",
                          composed |-> NoComposed]
                    ELSE Prefix(r, key, legacy) IN
         /\ route' = "api"
         /\ req' = r
         /\ pc' = out.pc
         /\ resp' = out.resp
         /\ log' = out.log
         /\ events' = out.events
         /\ raised' = out.raised
         /\ composed' = out.composed
    /\ UNCHANGED <<key, flashes, health, prev, now, other>>

Serve_SharedPayload(r) ==
    /\ \E legacy \in BOOLEAN :
         LET data == IF other.route = "api" /\ other.pc # "done"
                     THEN other.req ELSE r
             out == Prefix(data, key, legacy) IN
         /\ route' = "api"
         /\ req' = r
         /\ pc' = out.pc
         /\ resp' = out.resp
         /\ log' = out.log
         /\ events' = out.events
         /\ raised' = out.raised
         /\ composed' = out.composed
    /\ UNCHANGED <<key, flashes, health, prev, now, other>>

\* The handler is entered with payload r.
Serve(r) ==
    /\ \E legacy \in BOOLEAN :
         LET out == Prefix(r, key, legacy) IN
         /\ route' = "api"
         /\ req' = r
         /\ pc' = out.pc
         /\ resp' = out.resp
         /\ log' = out.log
         /\ events' = out.events
         /\ raised' = out.raised
         /\ composed' = out.composed
    /\ UNCHANGED <<key, flashes, health, prev, now, other>>

send_demo_confirmation ==
    /\ pc = "idle"
    /\ \E r \in ApiRequests : Serve(r)

\* What http_requests.post(..., timeout=30) can do: return a response with
\* some status code, or raise.
StatusCodes == {200, 403, 500}
TransportOutcomes ==
    {[kind |-> "status", code |-> c, exc |-> "none"] : c \in StatusCodes}
    \cup {[kind |-> "raise", code |-> 0, exc |-> e] : e \in TransportExceptions}

\* A call that gets no answer: with a timeout it raises Timeout when the
\* timeout elapses, without one it never returns.
Hang == [kind |-> "hang", code |-> 0, exc |-> "none"]
OutcomesWith(t) ==
    IF t > 0 THEN TransportOutcomes
    ELSE {o \in TransportOutcomes : o.exc # "Timeout"} \cup {Hang}

PostOutcomes_NoTimeout == OutcomesWith(0)

\* what a post made with timeout=30 can do
PostOutcomes == OutcomesWith(PostTimeout)

NextAfterVisitor_RetryOnFailure(code) ==
    IF code # 200 THEN FirstRecipient ELSE SecondRecipient

\* the recipient of the post that follows the visitor post's return: the
\* company, whatever status the visitor post returned
NextAfterVisitor(code) == SecondRecipient

\* The visitor post completes; the handler logs and starts the company post,
\* or the exception it raised reaches the except clause.
visitor_response ==
    /\ pc = "visitor_post"
    /\ \E o \in PostOutcomes :
         IF o.kind = "hang"
         THEN pc' = "blocked" /\ UNCHANGED <<events, raised, resp, log>>
         ELSE IF o.kind = "raise"
         THEN LET h == HandleException(o.exc, log) IN
              /\ events' = Append(events, Event("post_raise", FirstRecipient, 0))
              /\ raised' = o.exc
              /\ resp' = h.resp
              /\ log' = h.log
              /\ pc' = "done"
         ELSE /\ events' = events \o
                    <<Event("post_return", FirstRecipient, o.code),
                      Post(NextAfterVisitor(o.code), req, composed)>>
              /\ log' = Append(log, Entry("info", "Visitor email response"))
              /\ pc' = "company_post"
              /\ UNCHANGED <<resp, raised>>
    /\ UNCHANGED <<key, route, req, flashes, health, prev, now, composed, other>>

\* status_code of the recorded return of the post to `rcpt`
StatusOf(evs, rcpt) ==
    LET i == CHOOSE j \in 1..Len(evs) :
                 evs[j].ev = "post_return" /\ evs[j].rcpt = rcpt
    IN evs[i].code

\* `if visitor_response.status_code != 200: ... if company_response...`
FailureEntries(evs) ==
    (IF StatusOf(evs, "visitor") # 200
     THEN <<Entry("error", "Visitor email failed")>> ELSE <<>>)
    \o (IF StatusOf(evs, "company") # 200
        THEN <<Entry("error", "Company email failed")>> ELSE <<>>)

company_response_FailsOnStatus ==
    /\ pc = "company_post"
    /\ \E o \in PostOutcomes :
         IF o.kind = "hang"
         THEN pc' = "blocked" /\ UNCHANGED <<events, raised, resp, log>>
         ELSE IF o.kind = "raise"
         THEN LET h == HandleException(o.exc, log) IN
              /\ events' = Append(events, Event("post_raise", SecondRecipient, 0))
              /\ raised' = o.exc
              /\ resp' = h.resp
              /\ log' = h.log
              /\ pc' = "done"
         ELSE LET evs == Append(events, Event("post_return", SecondRecipient, o.code)) IN
              /\ events' = evs
              /\ log' = Append(log, Entry("info", "Company email response"))
                        \o FailureEntries(evs)
              /\ resp' = IF FailureEntries(evs) = <<>>
                         THEN Json(200, SentBody)
                         ELSE Json(502, [success |-> FALSE,
                                         error |-> "Email delivery failed"])
              /\ pc' = "done"
              /\ UNCHANGED raised
    /\ UNCHANGED <<key, route, req, flashes, health, prev, now, composed, other>>

\* The company post completes; the handler logs, checks both status codes and
\* answers, or the exception it raised reaches the except clause.
company_response ==
    /\ pc = "company_post"
    /\ \E o \in PostOutcomes :
         IF o.kind = "hang"
         THEN pc' = "blocked" /\ UNCHANGED <<events, raised, resp, log>>
         ELSE IF o.kind = "raise"
         THEN LET h == HandleException(o.exc, log) IN
              /\ events' = Append(events, Event("post_raise", SecondRecipient, 0))
              /\ raised' = o.exc
              /\ resp' = h.resp
              /\ log' = h.log
              /\ pc' = "done"
         ELSE LET evs == Append(events, Event("post_return", SecondRecipient, o.code)) IN
              /\ events' = evs
              /\ log' = Append(log, Entry("info", "Company email response"))
                        \o FailureEntries(evs)
              /\ resp' = Json(200, SentBody)
              /\ pc' = "done"
              /\ UNCHANGED raised
    /\ UNCHANGED <<key, route, req, flashes, health, prev, now, composed, other>>

(* ---------------------------- POST /contact ---------------------------- *)
form_name_NoStrip(r) == get(r.name, Str(<<>>)).s

\* request.form.get(f, '').strip()
form_name(r) == strip(get(r.name, Str(<<>>)).s)
form_email(r) == strip(get(r.email, Str(<<>>)).s)
form_message(r) == strip(get(r.message, Str(<<>>)).s)
\* request.form.get('service', 'General Services')
form_service(r) ==
    get(r.service, Str(<<"G", "e", "n", "e", "r", "a", "l", " ",
                       "S", "e", "r", "v", "i", "c", "e", "s">>)).s

FormInvalid_NoMessageCheck(r) ==
    \/ form_name(r) = <<>>
    \/ form_email(r) = <<>>
    \/ ~In("@", form_email(r))

FormInvalid_ServiceRequired(r) ==
    \/ form_name(r) = <<>>
    \/ form_email(r) = <<>>
    \/ ~In("@", form_email(r))
    \/ form_message(r) = <<>>
    \/ strip(form_service(r)) = <<>>

\* `not name or not email or '@' not in email or not message`
FormInvalid(r) ==
    \/ form_name(r) = <<>>
    \/ form_email(r) = <<>>
    \/ ~In("@", form_email(r))
    \/ form_message(r) = <<>>

\* app.logger.info(f'Contact Form: {name} ({email}) - Service: {service}')
ContactEntry(r) ==
    [level |-> "info", msg |-> "Contact Form", name |-> form_name(r),
     email |-> form_email(r), service |-> form_service(r)]

\* What the POST branch does with form r: the flashed messages and the log
\* entries it writes.
Submitted(r) ==
    IF FormInvalid(r)
    THEN [flashes |-> <<[category |-> "error",
                         text |-> "Please fill in all required fields correctly."]>>,
          log |-> <<>>]
    ELSE [flashes |-> <<[category |-> "success", text |-> "Thank you"]>>,
          log |-> <<ContactEntry(r)>>]

Submit_LogsBeforeValidation(r) ==
    /\ req' = r
    /\ flashes' = Submitted(r).flashes
    /\ log' = <<ContactEntry(r)>>
    /\ route' = "contact"
    /\ resp' = Html(200, "contact.html")
    /\ pc' = "done"
    /\ UNCHANGED <<key, events, raised, health, prev, now, composed, other>>

\* POST /contact with form r
Submit(r) ==
    /\ req' = r
    /\ flashes' = Submitted(r).flashes
    /\ log' = Submitted(r).log
    /\ route' = "contact"
    /\ resp' = Html(200, "contact.html")
    /\ pc' = "done"
    /\ UNCHANGED <<key, events, raised, health, prev, now, composed, other>>

contact ==
    /\ pc = "idle"
    /\ \E r \in FormRequests : Submit(r)

\* GET /contact: the method test of line 192 fails and the form is rendered
GetRequest ==
    [body |-> "get", email |-> Absent, name |-> Absent,
     service |-> Absent, message |-> Absent]

contact_get ==
    /\ pc = "idle"
    /\ req' = GetRequest
    /\ route' = "contact"
    /\ resp' = Html(200, "contact.html")
    /\ pc' = "done"
    /\ UNCHANGED <<key, events, log, flashes, raised, health, prev, now,
                   composed, other>>

(* ------------------------------ requests ------------------------------- *)
\* The response has been sent; nothing of the request is kept.
request_done ==
    /\ pc = "done"
    /\ route' = "none"
    /\ req' = NoRequest
    /\ pc' = "idle"
    /\ resp' = NoResp
    /\ events' = <<>>
    /\ log' = <<>>
    /\ flashes' = <<>>
    /\ raised' = "none"
    /\ composed' = NoComposed
    /\ UNCHANGED <<key, health, prev, now, other>>

(* --------------------------- GET /blog/<slug> -------------------------- *)
\* the keys of BLOG_ARTICLES, in the order of the dict literal
BLOG_ARTICLES ==
    <<"india-africa-trade-guide-2026", "africa-import-regulations",
      "mobile-app-trends-2026", "india-africa-opportunities-2026",
      "ai-international-trade", "ecommerce-african-markets",
      "import-duty-calculator-guide">>

ArticleKeys == {BLOG_ARTICLES[i] : i \in 1..Len(BLOG_ARTICLES)}

\* slugs requested: every key, and three that are no key (one a prefix of a
\* key, one a key in upper case)
Slugs == ArticleKeys \cup {"no-such-article", "india-africa-trade-guide",
                           "AI-INTERNATIONAL-TRADE"}

BlogRequest(slug) ==
    [body |-> "path", email |-> Absent, name |-> Absent,
     service |-> Absent, message |-> Absent, slug |-> slug]

ArticleMissing_Never(slug) == FALSE

\* article = BLOG_ARTICLES.get(slug); `if not article`
ArticleMissing(slug) == slug \notin ArticleKeys

related_WholeCatalogue(slug) == BLOG_ARTICLES

\* the keys of the articles other than slug, in catalogue order
related(slug) == SelectSeq(BLOG_ARTICLES, LAMBDA k : k # slug)

\* related[:3]
FirstThree(q) == SubSeq(q, 1, IF Len(q) < 3 THEN Len(q) ELSE 3)

blog_article ==
    /\ pc = "idle"
    /\ \E slug \in Slugs :
         /\ req' = BlogRequest(slug)
         /\ resp' = IF ArticleMissing(slug)
                    THEN Html(404, "404.html")
                    ELSE [status |-> 200, json |-> FALSE,
                          body |-> [template |-> "blog_article.html",
                                    article |-> slug,
                                    related_articles |-> FirstThree(related(slug))]]
    /\ route' = "blog"
    /\ pc' = "done"
    /\ UNCHANGED <<key, events, log, flashes, raised, health, prev, now, composed, other>>

(* ----------------------------- GET /health ----------------------------- *)
health_check_NeedsKey ==
    /\ health' = Json(200, [status |-> IF key = "" THEN "degraded" ELSE "healthy",
                            timestamp |-> "isoformat"])
    /\ UNCHANGED <<key, route, req, pc, resp, events, log, flashes, raised, prev,
                   now, composed, other>>

\* return {'status': 'healthy', 'timestamp': datetime.now().isoformat()}
\* A probe is its own request: it is served whatever the other request in
\* flight is doing.
health_check ==
    /\ health' = Json(200, [status |-> "healthy", timestamp |-> "isoformat"])
    /\ UNCHANGED <<key, route, req, pc, resp, events, log, flashes, raised, prev,
                   now, composed, other>>

Next ==
    \/ send_demo_confirmation
    \/ visitor_response
    \/ company_response
    \/ contact
    \/ contact_get
    \/ blog_article
    \/ health_check
    \/ request_done

Spec == Init /\ [][Next]_vars

\* The API requests alone, every post that was started completing (it
\* returns or raises).
ApiNext ==
    \/ send_demo_confirmation
    \/ visitor_response
    \/ company_response
    \/ request_done

FairSpec ==
    /\ Init /\ [][ApiNext]_vars
    /\ WF_vars(visitor_response) /\ WF_vars(company_response)

(* ------------------- the same payload, submitted again ------------------ *)
\* payloads submitted repeatedly: a valid one, one whose email is invalid,
\* and a body that is no JSON object
RepeatRequests ==
    {[body |-> "object", email |-> Str(<<"a", "@", ".">>), name |-> Str(<<"J">>),
      service |-> Str(<<"s">>), message |-> Str(<<"m">>)],
     [body |-> "object", email |-> Str(<<"a">>), name |-> Str(<<"J">>),
      service |-> Str(<<"s">>), message |-> Str(<<"m">>)],
     [body |-> "truthy_nondict", email |-> Absent, name |-> Absent,
      service |-> Absent, message |-> Absent]}

send_demo_confirmation_again ==
    /\ pc = "idle"
    /\ \E r \in RepeatRequests : Serve(r)

\* request_done, with the finished request noted in the history variable
request_recorded ==
    /\ pc = "done"
    /\ prev' = [req |-> req, events |-> events, resp |-> resp]
    /\ route' = "none"
    /\ req' = NoRequest
    /\ pc' = "idle"
    /\ resp' = NoResp
    /\ events' = <<>>
    /\ log' = <<>>
    /\ flashes' = <<>>
    /\ raised' = "none"
    /\ composed' = NoComposed
    /\ UNCHANGED <<key, health, now, other>>

RepeatNext ==
    \/ send_demo_confirmation_again
    \/ visitor_response
    \/ company_response
    \/ request_recorded

RepeatSpec == Init /\ [][RepeatNext]_vars

(* ------------------------------ the clock ------------------------------ *)
\* datetime.now() is read in seconds ('%Y-%m-%d %H:%M:%S'); the clock counts
\* them from the start of the process up to MaxClock.
tick ==
    /\ now < MaxClock
    /\ now' = now + 1
    /\ UNCHANGED <<key, route, req, pc, resp, events, log, flashes, raised,
                   health, prev, composed, other>>

\* the same payload submitted again, while time passes
ClockNext ==
    \/ RepeatNext
    \/ tick

ClockSpec == Init /\ [][ClockNext]_vars

(* ----------------------- two requests at a time ------------------------ *)
\* A WSGI server runs the handlers of two requests at the same time, each in
\* its own thread with its own request context and locals. The second request
\* is held in `other`; its handlers are the ones above, applied to a slot.
ConcRequests ==
    RepeatRequests
    \cup {[body |-> "object", email |-> Str(<<"@">>), name |-> Absent,
           service |-> Absent, message |-> Absent]}

ConcForms ==
    {[body |-> "form", email |-> Str(<<"a", "@", ".">>), name |-> Str(<<"J">>),
      service |-> Absent, message |-> Str(<<"m">>)],
     [body |-> "form", email |-> Str(<<"a">>), name |-> Str(<<"J">>),
      service |-> Str(<<"s">>), message |-> Str(<<"m">>)]}

\* send_demo_confirmation from its entry to its first return, raise or post
Enter(r, k, legacy) ==
    LET out == Prefix(r, k, legacy) IN
    [route |-> "api", req |-> r, pc |-> out.pc, resp |-> out.resp,
     events |-> out.events, log |-> out.log, flashes |-> <<>>,
     raised |-> out.raised, composed |-> out.composed]

\* the handler of slot st resumes when its visitor post has done o
AfterVisitor(st, o) ==
    IF o.kind = "hang" THEN [st EXCEPT !.pc = "blocked"]
    ELSE IF o.kind = "raise"
    THEN LET h == HandleException(o.exc, st.log) IN
         [st EXCEPT !.events = Append(@, Event("post_raise", FirstRecipient, 0)),
                    !.raised = o.exc, !.resp = h.resp, !.log = h.log,
                    !.pc = "done"]
    ELSE [st EXCEPT !.events = @ \o
                        <<Event("post_return", FirstRecipient, o.code),
                          Post(NextAfterVisitor(o.code), st.req, st.composed)>>,
                    !.log = Append(@, Entry("info", "Visitor email response")),
                    !.pc = "company_post"]

\* the handler of slot st resumes when its company post has done o
AfterCompany(st, o) ==
    IF o.kind = "hang" THEN [st EXCEPT !.pc = "blocked"]
    ELSE IF o.kind = "raise"
    THEN LET h == HandleException(o.exc, st.log) IN
         [st EXCEPT !.events = Append(@, Event("post_raise", SecondRecipient, 0)),
                    !.raised = o.exc, !.resp = h.resp, !.log = h.log,
                    !.pc = "done"]
    ELSE LET evs == Append(st.events,
                           Event("post_return", SecondRecipient, o.code)) IN
         [st EXCEPT !.events = evs,
                    !.log = Append(@, Entry("info", "Company email response"))
                            \o FailureEntries(evs),
                    !.resp = Json(200, SentBody),
                    !.pc = "done"]

\* POST /contact with form r, from entry to response
Posted(r) ==
    [route |-> "contact", req |-> r, pc |-> "done",
     resp |-> Html(200, "contact.html"), events |-> <<>>,
     log |-> Submitted(r).log, flashes |-> Submitted(r).flashes,
     raised |-> "none", composed |-> NoComposed]

send_demo_confirmation_conc ==
    /\ pc = "idle"
    /\ \E r \in ConcRequests : Serve(r)

contact_conc ==
    /\ pc = "idle"
    /\ \E r \in ConcForms : Submit(r)

\* the variables of the first request
first == <<route, req, pc, resp, events, log, flashes, raised, composed>>

other_send_demo_confirmation ==
    /\ other.pc = "idle"
    /\ \E r \in ConcRequests, legacy \in BOOLEAN : other' = Enter(r, key, legacy)
    /\ UNCHANGED <<key, health, prev, now, first>>

other_contact ==
    /\ other.pc = "idle"
    /\ \E r \in ConcForms : other' = Posted(r)
    /\ UNCHANGED <<key, health, prev, now, first>>

other_visitor_response ==
    /\ other.pc = "visitor_post"
    /\ \E o \in PostOutcomes : other' = AfterVisitor(other, o)
    /\ UNCHANGED <<key, health, prev, now, first>>

other_company_response ==
    /\ other.pc = "company_post"
    /\ \E o \in PostOutcomes : other' = AfterCompany(other, o)
    /\ UNCHANGED <<key, health, prev, now, first>>

other_done ==
    /\ other.pc = "done"
    /\ other' = NoOther
    /\ UNCHANGED <<key, health, prev, now, first>>

ConcNext ==
    \/ send_demo_confirmation_conc
    \/ contact_conc
    \/ visitor_response
    \/ company_response
    \/ request_done
    \/ other_send_demo_confirmation
    \/ other_contact
    \/ other_visitor_response
    \/ other_company_response
    \/ other_done

ConcSpec == Init /\ [][ConcNext]_vars

(* ------------------------- the SMTP transport --------------------------- *)
\* app.py imports smtplib and the MIME classes and never uses them: the
\* dispatcher that sends through an SMTP relay is described by the
\* specification (section 4.4) and is modelled from it. It submits a composed
\* message with STARTTLS first and falls back to implicit TLS.
SubmissionPort == 587
SecurePort == 465

SmtpCredentials == {"relay_user_1", "relay_user_2"}

\* the messages handed to the dispatcher: the compositions of two payloads,
\* each addressed to the visitor or to the company
SmtpPayloads ==
    {[body |-> "object", email |-> Str(<<"a", "@", ".">>), name |-> Str(<<"J">>),
      service |-> Str(<<"s">>), message |-> Str(<<"m">>)],
     [body |-> "object", email |-> Str(<<"@">>), name |-> Absent,
      service |-> Absent, message |-> Absent]}
SmtpMessages ==
    {[to |-> IF rcpt = "visitor" THEN visitor_email(r) ELSE CompanyAddress,
      subject |-> IF rcpt = "visitor" THEN Compose(r, 0).visitor_subject
                  ELSE Compose(r, 0).company_subject,
      html |-> IF rcpt = "visitor" THEN Compose(r, 0).visitor_html
               ELSE Compose(r, 0).company_html] :
        rcpt \in {"visitor", "company"}, r \in SmtpPayloads}

SmtpRequest(c, m) ==
    [body |-> "smtp", email |-> Absent, name |-> Absent, service |-> Absent,
     message |-> Absent, creds |-> c, msg |-> m]

\* one delivery attempt: the path, its port, and what is submitted
SmtpAttempt(path, c, m) ==
    [ev |-> "smtp_attempt", path |-> path,
     port |-> IF path = "starttls" THEN SubmissionPort ELSE SecurePort,
     creds |-> c, msg |-> m]
SmtpResult(ev, path) == [ev |-> ev, path |-> path]

\* what an attempt can do: the message is accepted, or the attempt throws
SmtpExceptions == {"SMTPAuthenticationError", "SMTPException", "TimeoutError"}
SmtpOutcomes == {"sent"} \cup SmtpExceptions

AfterStarttlsFailure_NoFallback(c, m) ==
    [pc |-> "done", events |-> <<>>,
     log |-> <<Entry("error", "Email sending error")>>]

\* the STARTTLS attempt threw: the implicit-TLS attempt is made with the same
\* credentials and message, and nothing is reported yet
AfterStarttlsFailure(c, m) ==
    [pc |-> "ssl", events |-> <<SmtpAttempt("ssl", c, m)>>, log |-> <<>>]

\* both attempts threw, the second with e: the failure is logged; a rejection
\* of the credentials is answered 500 with a generic message, any other
\* failure is not surfaced
SmtpFailure(e) ==
    IF e = "SMTPAuthenticationError"
    THEN Json(500, [success |-> FALSE, error |-> "Email service error"])
    ELSE Json(200, SentBody)

smtp_dispatch ==
    /\ pc = "idle"
    /\ \E c \in SmtpCredentials, m \in SmtpMessages :
         /\ req' = SmtpRequest(c, m)
         /\ events' = <<SmtpAttempt("starttls", c, m)>>
    /\ route' = "smtp"
    /\ pc' = "starttls"
    /\ UNCHANGED <<key, resp, log, flashes, raised, health, prev, now,
                   composed, other>>

smtp_starttls_done ==
    /\ pc = "starttls"
    /\ \E o \in SmtpOutcomes :
         IF o = "sent"
         THEN /\ events' = Append(events, SmtpResult("smtp_sent", "starttls"))
              /\ resp' = Json(200, SentBody)
              /\ pc' = "done"
              /\ UNCHANGED log
         ELSE LET f == AfterStarttlsFailure(req.creds, req.msg) IN
              /\ events' = Append(events, SmtpResult("smtp_raise", "starttls"))
                           \o f.events
              /\ log' = log \o f.log
              /\ pc' = f.pc
              /\ resp' = IF f.pc = "done" THEN SmtpFailure(o) ELSE resp
    /\ UNCHANGED <<key, route, req, flashes, raised, health, prev, now,
                   composed, other>>

smtp_ssl_done ==
    /\ pc = "ssl"
    /\ \E o \in SmtpOutcomes :
         /\ pc' = "done"
         /\ IF o = "sent"
            THEN /\ events' = Append(events, SmtpResult("smtp_sent", "ssl"))
                 /\ resp' = Json(200, SentBody)
                 /\ UNCHANGED <<log, raised>>
            ELSE /\ events' = Append(events, SmtpResult("smtp_raise", "ssl"))
                 /\ raised' = o
                 /\ log' = Append(log, Entry("error", "Email sending error"))
                 /\ resp' = SmtpFailure(o)
    /\ UNCHANGED <<key, route, req, flashes, health, prev, now, composed, other>>

SmtpNext ==
    \/ smtp_dispatch
    \/ smtp_starttls_done
    \/ smtp_ssl_done
    \/ request_done

SmtpSpec == Init /\ [][SmtpNext]_vars

(* ======================= properties of the handlers ==================== *)
\* A transport call to `rcpt` was started in this request.
Started(rcpt) ==
    \E i \in 1..Len(events) : events[i].ev = "post_start" /\ events[i].rcpt = rcpt

ApiDone == route = "api" /\ pc = "done"

\* The fields that are validated hold strings (or are absent).
StringFields(r) ==
    /\ r.email.t \in {"absent", "str"}
    /\ r.name.t \in {"absent", "str"}

\* A JSON object whose validated fields are strings and whose email, trimmed,
\* is non-empty and contains '@'.
StructurallyValid(r) ==
    /\ r.body = "object"
    /\ StringFields(r)
    /\ r.email.t = "str"
    /\ strip(r.email.s) # <<>>
    /\ In("@", strip(r.email.s))

\* A ContactRequest valid by every rule: name and message non-empty after
\* trimming, email with an '@' and a '.' after it.
HasDotAfterAt(e) ==
    \E i, j \in 1..Len(e) : i < j /\ e[i] = "@" /\ e[j] = "."
FullyValid(r) ==
    /\ StructurallyValid(r)
    /\ r.name.t = "str" /\ strip(r.name.s) # <<>>
    /\ r.message.t = "str" /\ strip(r.message.s) # <<>>
    /\ HasDotAfterAt(strip(r.email.s))

\* The email (after trimming) is empty or contains no '@'.
BadEmail(r) ==
    /\ r.email.t \in {"absent", "str"}
    /\ strip(r.email.s) = <<>> \/ ~In("@", strip(r.email.s))

JsonError(status, text) ==
    /\ resp.json
    /\ resp.status = status
    /\ DOMAIN resp.body = {"success", "error"}
    /\ resp.body.success = FALSE
    /\ resp.body.error = text

JsonSuccess ==
    /\ resp.json
    /\ resp.status = 200
    /\ "success" \in DOMAIN resp.body
    /\ resp.body.success = TRUE

\* C1: without RESEND_API_KEY, a structurally valid submission to
\* /api/send-demo-confirmation is answered 200 with success = true, and no
\* transport call is made at any point of the request.
C1_NoKeySoftSkip ==
    (route = "api" /\ key = "" /\ StructurallyValid(req))
        => /\ events = <<>>
           /\ pc = "done"
           /\ JsonSuccess

C1_Witness ==
    /\ ApiDone /\ key = "" /\ FullyValid(req)
    /\ resp.status = 200
    /\ log # <<>>

\* C2: every payload whose trimmed email is empty or has no '@' is answered
\* 400 {success: false, error: "Invalid email"} whatever the other fields
\* are, with or without a key, and no transport call is made.
C2_InvalidEmailIs400 ==
    (ApiDone /\ req.body = "object" /\ BadEmail(req))
        => /\ JsonError(400, "Invalid email")
           /\ events = <<>>

\* C3: with a key and a structurally valid request the response is 200 with
\* success = true for every outcome of the two posts (non-200 status,
\* timeout, connection failure).
C3_DeliveryFailureNotSurfaced ==
    (ApiDone /\ key # "" /\ FullyValid(req)) => JsonSuccess

\* C4: whenever the visitor post was started, the company post is also
\* attempted before the response is produced, whatever the visitor post did.
C4_CompanyAlwaysAttempted ==
    (ApiDone /\ key # "" /\ FullyValid(req) /\ Started("visitor"))
        => Started("company")

\* C5: the company post is started only after the visitor post has been
\* started and has returned; it is never attempted without one before it.
C5_VisitorBeforeCompany ==
    \A i \in 1..Len(events) :
        (events[i].ev = "post_start" /\ events[i].rcpt = "company")
            => \E j, k \in 1..(i - 1) :
                  /\ j < k
                  /\ events[j].ev = "post_start" /\ events[j].rcpt = "visitor"
                  /\ events[k].ev = "post_return" /\ events[k].rcpt = "visitor"

C5_Witness ==
    /\ route = "api"
    /\ Started("company")
    /\ \E i \in 1..Len(events) :
          events[i].ev = "post_return" /\ events[i].rcpt = "visitor"
          /\ events[i].code # 200

\* name, email or message is missing or empty
MissingOrEmpty(v) == v.t = "absent" \/ (v.t = "str" /\ v.s = <<>>)
MissingRequired(r) ==
    \/ MissingOrEmpty(r.name)
    \/ MissingOrEmpty(r.email)
    \/ MissingOrEmpty(r.message)

\* The submission in flight was rejected with at least one error message.
Rejected ==
    \/ /\ route = "api"
       /\ resp.json /\ resp.status = 400
       /\ "error" \in DOMAIN resp.body
    \/ /\ route = "contact"
       /\ \E i \in 1..Len(flashes) : flashes[i].category = "error"

\* C6: a submission to /contact or /api/send-demo-confirmation in which name,
\* email or message is missing or empty is rejected with at least one error
\* message, and no transport call is made for it.
C6_MissingFieldRejected ==
    (/\ route \in {"api", "contact"}
     /\ req.body \in {"object", "form"}
     /\ StringFields(req)
     /\ MissingRequired(req))
        => /\ events = <<>>
           /\ pc = "done" => Rejected

\* C7: an email lacking '@' or lacking '.' is rejected by /contact and by
\* /api/send-demo-confirmation, regardless of the other fields.
C7_EmailNeedsAtAndDot ==
    (/\ route \in {"api", "contact"}
     /\ pc = "done"
     /\ req.body \in {"object", "form"}
     /\ StringFields(req)
     /\ req.email.t = "str"
     /\ ~In("@", req.email.s) \/ ~In(".", req.email.s))
        => Rejected /\ events = <<>>

\* C8: when an exception is raised while handling the request, the 500 body
\* is a generic message: the exception's text never appears in it.
C8_NoExceptionTextInBody ==
    (ApiDone /\ raised # "none")
        => /\ resp.status = 500
           /\ resp.json
           /\ "error" \in DOMAIN resp.body
           /\ resp.body.error \notin ExcTexts

\* C9: every response of the handler has status 200, 400 or 500 and a JSON
\* body with a boolean success, true exactly when the status is 200; a
\* success body carries message and a failure body carries error.
C9_ResponseShape ==
    ApiDone
        => /\ resp.json
           /\ resp.status \in {200, 400, 500}
           /\ "success" \in DOMAIN resp.body
           /\ resp.body.success \in BOOLEAN
           /\ resp.body.success <=> resp.status = 200
           /\ resp.body.success => "message" \in DOMAIN resp.body
           /\ ~resp.body.success => "error" \in DOMAIN resp.body

C9_Witness ==
    /\ ApiDone
    /\ raised = "AttributeError"
    /\ resp.status = 500

\* The body is absent, empty or not a JSON object, or the email field is
\* missing, not a string, or fails the email check.
InvalidInput(r) ==
    \/ r.body \in NonObjectBodies
    \/ /\ r.body = "object"
       /\ \/ r.email.t # "str"
          \/ BadEmail(r)

\* C10: an invalid input is answered 400, never 500; no fault escapes the
\* handler and no part of the notification pipeline runs.
C10_InvalidInputIs400 ==
    (route = "api" /\ InvalidInput(req))
        => /\ events = <<>>
           /\ pc = "done"
           /\ resp.json
           /\ resp.status = 400

\* the number of posts to `rcpt` started in this request
NumStarted(rcpt) ==
    Cardinality({i \in 1..Len(events) :
                    events[i].ev = "post_start" /\ events[i].rcpt = rcpt})

\* the number of posts of this request that returned or raised
NumCompleted ==
    Cardinality({i \in 1..Len(events) :
                    events[i].ev \in {"post_return", "post_raise"}})

\* C11: within one request the transport is called at most once for the
\* visitor and at most once for the company, whatever each call returns or
\* raises (no retry, no re-send after a non-200 status), and when the
\* response is produced no call is left pending or queued.
C11_AtMostOnePostEach ==
    /\ NumStarted("visitor") <= 1
    /\ NumStarted("company") <= 1
    /\ Len(events) <= 4
    /\ pc \in {"idle", "done"}
          => NumCompleted = NumStarted("visitor") + NumStarted("company")

C11_Witness ==
    /\ ApiDone
    /\ NumStarted("visitor") = 1 /\ NumStarted("company") = 1
    /\ StatusOf(events, "visitor") # 200
    /\ \E i \in 1..Len(events) :
          events[i].rcpt = "company" /\ events[i].ev = "post_return"
          /\ events[i].code # 200

\* a post of this request is in flight
InFlight == pc \in {"visitor_post", "company_post"}

\* C12: every post is made with timeout 30, and (each started post returning
\* or raising) every request whose posts were started ends with a response.
C12_BoundedTimeoutTerminates ==
    /\ [](\A i \in 1..Len(events) :
             events[i].ev = "post_start" => events[i].timeout = 30)
    /\ (InFlight ~> (pc = "done" /\ resp.status # 0))

C12_Witness ==
    /\ ApiDone
    /\ raised = "Timeout"
    /\ NumStarted("company") = 1
    /\ resp.status = 500

\* C13: GET /health answers 200 with status = "healthy" in every reachable
\* state, with or without a key and whatever a notification request did or
\* is doing; serving it makes no transport call, writes no log entry and
\* leaves the request in flight untouched.
C13_HealthAlwaysHealthy ==
    /\ [](health # NoResp
            => /\ health.status = 200
               /\ health.json
               /\ health.body.status = "healthy")
    /\ [][health' # health
            => /\ events' = events
               /\ log' = log
               /\ pc' = pc /\ resp' = resp /\ raised' = raised]_vars
    /\ [](ENABLED health_check)

C13_Witness ==
    /\ health.status = 200
    /\ key # ""
    /\ pc = "company_post"
    /\ StatusOf(events, "visitor") # 200

\* a post of this request raised
SomePostRaised ==
    \E i \in 1..Len(events) : events[i].ev = "post_raise"

\* C14: when the payload of the previous request is submitted again (key
\* configured, payload valid), the second request makes its own attempts:
\* its visitor post is started, carrying what the first one carried; its
\* company post is started exactly when its own visitor post returned; and
\* its response follows from its own posts alone, whatever the first
\* request's posts did.
C14_RepeatIsIndependent ==
    (route = "api" /\ prev.req = req /\ key # "" /\ FullyValid(req))
        => /\ events # <<>>
           /\ events[1] = prev.events[1]
           /\ NumStarted("visitor") = 1
           /\ pc = "done"
                => /\ NumStarted("company") = 1
                        <=> \E i \in 1..Len(events) :
                               events[i].ev = "post_return"
                               /\ events[i].rcpt = "visitor"
                   /\ resp.status = 200 <=> ~SomePostRaised
                   /\ resp.status = 500 <=> SomePostRaised

C14_Witness ==
    /\ ApiDone /\ prev.req = req /\ key # "" /\ FullyValid(req)
    /\ prev.resp.status = 200
    /\ resp.status = 200
    /\ NumStarted("company") = 1
    /\ prev.events # events

\* a POST /contact has been answered
ContactDone == route = "contact" /\ pc = "done" /\ req.body = "form"

\* the flashed messages of category c
Flashed(c) == {i \in 1..Len(flashes) : flashes[i].category = c}

\* the value of a form field, trimmed ('' when absent)
Trimmed(v) == strip(v.s)

\* a required-field rule of the contact form fails
FailsRequiredRule(r) ==
    \/ Trimmed(r.name) = <<>>
    \/ Trimmed(r.email) = <<>>
    \/ ~In("@", Trimmed(r.email))
    \/ Trimmed(r.message) = <<>>

\* C15: POST /contact with an empty message, or any other failed
\* required-field rule, flashes exactly one error message and no success
\* message, logs nothing, and re-renders the contact form with status 200.
C15_InvalidFormRedisplayed ==
    (ContactDone /\ FailsRequiredRule(req))
        => /\ Cardinality(Flashed("error")) = 1
           /\ Flashed("success") = {}
           /\ Len(flashes) = 1
           /\ log = <<>>
           /\ resp = Html(200, "contact.html")

C15_Witness ==
    /\ ContactDone
    /\ Trimmed(req.name) # <<>>
    /\ In("@", Trimmed(req.email))
    /\ req.message = Str(<<>>)
    /\ Flashed("error") # {}

\* C16: POST /contact with a name that is non-empty (after trimming), an
\* email containing '@' and '.', and a message of at least 10 characters
\* (not blank), whatever the service is, flashes exactly one success message
\* and no error message.
C16_ValidFormSucceeds ==
    (/\ ContactDone
     /\ Trimmed(req.name) # <<>>
     /\ In("@", req.email.s) /\ In(".", req.email.s)
     /\ Len(req.message.s) >= 10
     /\ Trimmed(req.message) # <<>>)
        => /\ Cardinality(Flashed("success")) = 1
           /\ Flashed("error") = {}
           /\ Len(flashes) = 1

C16_Witness ==
    /\ ContactDone
    /\ Trimmed(req.name) # <<>>
    /\ In("@", req.email.s) /\ In(".", req.email.s)
    /\ Len(req.message.s) >= 10
    /\ req.service = Str(<<>>)
    /\ Flashed("success") # {}

\* the response is a redirect
IsRedirect(rs) == rs.status \in {301, 302, 303, 307, 308}

\* C17: the response to POST /contact depends on validity: an invalid
\* submission re-renders the form with an error message, a valid one is
\* answered with a redirect carrying the success message.
C17_ValidFormRedirects ==
    ContactDone
        => IF FailsRequiredRule(req)
           THEN resp = Html(200, "contact.html") /\ Flashed("error") # {}
           ELSE IsRedirect(resp) /\ Flashed("success") # {}

\* C18: POST /contact rejects every submission whose message, trimmed, is
\* shorter than 10 characters, even with a valid name and email.
C18_ShortMessageRejected ==
    (ContactDone /\ Len(Trimmed(req.message)) < 10) => Rejected

\* the service value is missing or blank
BlankService(v) == v.t = "absent" \/ strip(v.s) = <<>>

\* the service values logged (contact) or posted (API) for this request
ServicesUsed ==
    {log[i].service : i \in {j \in 1..Len(log) : "service" \in DOMAIN log[j]}}
    \cup {events[i].service :
            i \in {j \in 1..Len(events) : events[j].ev = "post_start"}}

\* C19: in POST /contact and POST /api/send-demo-confirmation a missing or
\* blank service is replaced by the fallback label: the service logged or
\* placed in a notification is never empty or blank.
C19_ServiceFallback ==
    (route \in {"contact", "api"} /\ BlankService(req.service))
        => \A sv \in ServicesUsed : strip(sv) # <<>>

\* C20: GET /blog/<slug> answers 404 for every slug that is no key of
\* BLOG_ARTICLES and renders the article page (200) for every key; an
\* unknown slug never reaches article rendering.
C20_UnknownSlugIs404 ==
    (route = "blog" /\ pc = "done")
        => IF \E i \in 1..Len(BLOG_ARTICLES) : BLOG_ARTICLES[i] = req.slug
           THEN /\ resp.status = 200
                /\ resp.body.template = "blog_article.html"
                /\ resp.body.article = req.slug
           ELSE resp = Html(404, "404.html")

C20_Witness ==
    /\ route = "blog" /\ pc = "done"
    /\ req.slug = "india-africa-trade-guide"
    /\ resp.status = 404


\* C21: on the SMTP transport a failure is reported only after both attempts
\* threw: whenever the STARTTLS attempt has thrown, the next thing the
\* dispatcher did was an implicit-TLS attempt on port 465 with the credentials
\* and the message of the STARTTLS attempt, and a reported failure (an error
\* log entry or a failure response) has that attempt's throw behind it.
SmtpFailureReported ==
    \/ \E i \in 1..Len(log) : log[i].level = "error"
    \/ resp.status = 500
    \/ raised # "none"

C21_FallbackBeforeFailure ==
    route = "smtp" =>
      /\ events[1] = SmtpAttempt("starttls", req.creds, req.msg)
      /\ \A i \in 1..Len(events) :
           (events[i].ev = "smtp_raise" /\ events[i].path = "starttls") =>
             /\ i < Len(events)
             /\ events[i + 1] = SmtpAttempt("ssl", events[1].creds, events[1].msg)
             /\ events[i + 1].port = 465
      /\ SmtpFailureReported =>
           /\ Len(events) = 4
           /\ events[2] = SmtpResult("smtp_raise", "starttls")
           /\ events[4] = SmtpResult("smtp_raise", "ssl")

\* both attempts threw and the failure has been reported
C21_Witness ==
    /\ route = "smtp" /\ pc = "done"
    /\ SmtpFailureReported
    /\ events[3].path = "ssl"
    /\ resp.status = 500

\* the first request, as a slot
FirstSlot ==
    [route |-> route, req |-> req, pc |-> pc, resp |-> resp, events |-> events,
     log |-> log, flashes |-> flashes, raised |-> raised, composed |-> composed]

\* the transport outcomes the request of slot st has met, in order
OutcomesOf(st) ==
    LET ended == SelectSeq(st.events,
                           LAMBDA e : e.ev \in {"post_return", "post_raise"}) IN
    [i \in 1..Len(ended) |->
        IF ended[i].ev = "post_return"
        THEN [kind |-> "status", code |-> ended[i].code, exc |-> "none"]
        ELSE [kind |-> "raise", code |-> 0, exc |-> st.raised]]

\* payload r handled alone, its posts meeting the outcomes outs
Alone(r, k, legacy, outs) ==
    LET s0 == Enter(r, k, legacy)
        s1 == IF s0.pc = "visitor_post" /\ Len(outs) >= 1
              THEN AfterVisitor(s0, outs[1]) ELSE s0
        s2 == IF s1.pc = "company_post" /\ Len(outs) >= 2
              THEN AfterCompany(s1, outs[2]) ELSE s1
    IN s2

\* the request of slot st stands where it would stand had it been handled
\* alone with the same transport outcomes
AsIfAlone(st) ==
    CASE st.route = "api" ->
           \E legacy \in BOOLEAN : st = Alone(st.req, key, legacy, OutcomesOf(st))
      [] st.route = "contact" -> st = Posted(st.req)
      [] OTHER -> st = NoOther

\* a step of one request leaves everything of the other request as it was
Independent ==
    /\ first' # first => other' = other
    /\ other' # other => first' = first

\* C22: two submissions handled at the same time do not affect each other: in
\* every interleaving each request's response, delivery attempts, log and
\* flashed messages are those of the same request handled alone with the same
\* transport outcomes, and no step of one request changes anything of the
\* other.
C22_RequestsIndependent ==
    /\ [](AsIfAlone(FirstSlot) /\ AsIfAlone(other))
    /\ [][Independent]_vars

\* two different API requests in flight together have both been answered, one
\* after both posts and one after its visitor post raised
C22_Witness ==
    /\ route = "api" /\ pc = "done" /\ resp.body = SentBody
    /\ other.route = "api" /\ other.pc = "done" /\ other.req # req
    /\ other.raised \in TransportExceptions
    /\ Len(events) = 4 /\ Len(other.events) = 2

\* a form field as submitted after trimming: absent when nothing remains
TrimmedField(v) == IF Trimmed(v) = <<>> THEN Absent ELSE Str(Trimmed(v))

\* form r with name, email and message replaced by their trimmed forms
TrimmedForm(r) ==
    [r EXCEPT !.name = TrimmedField(@), !.email = TrimmedField(@),
              !.message = TrimmedField(@)]

WhitespaceOnly(v) == v.t = "str" /\ v.s # <<>> /\ Trimmed(v) = <<>>

\* C23: POST /contact validates name, email and message after trimming: the
\* flashed message and the log entry of a submission are those of the
\* submission with the three fields trimmed (a field of which nothing remains
\* being absent), and a submission with a whitespace-only name, email or
\* message gets the error message.
C23_ValidatesTrimmed ==
    ContactDone =>
      /\ flashes = Submitted(TrimmedForm(req)).flashes
      /\ log = Submitted(TrimmedForm(req)).log
      /\ (WhitespaceOnly(req.name) \/ WhitespaceOnly(req.email)
          \/ WhitespaceOnly(req.message))
         => (Flashed("error") # {} /\ log = <<>>)

\* a form whose email and message have surrounding whitespace is accepted
C23_Witness ==
    /\ ContactDone
    /\ req.email.s # Trimmed(req.email)
    /\ req.message.s # Trimmed(req.message) /\ Len(Trimmed(req.message)) > 1
    /\ Flashed("success") # {}

\* the post to rcpt returned a status other than 200
ReturnedFailure(rcpt) ==
    \E i \in 1..Len(events) :
        events[i].ev = "post_return" /\ events[i].rcpt = rcpt /\ events[i].code # 200

\* an error-level log entry names rcpt
ErrorLogged(rcpt) ==
    \E j \in 1..Len(log) :
        /\ log[j].level = "error"
        /\ log[j].msg = IF rcpt = "visitor" THEN "Visitor email failed"
                        ELSE "Company email failed"

\* C24: when a fully valid request has been answered, each recipient whose
\* post returned a status other than 200 has an error-level log entry naming
\* it, also when the post to the other recipient raised.
C24_FailedAttemptLogged ==
    (ApiDone /\ FullyValid(req)) =>
        \A rcpt \in {"visitor", "company"} :
            ReturnedFailure(rcpt) => ErrorLogged(rcpt)

\* the post_start events of evs
PostsOf(evs) == {evs[i] : i \in {j \in 1..Len(evs) : evs[j].ev = "post_start"}}

\* the payload of the previous request has been submitted again
Resubmitted == route = "api" /\ prev.req = req

\* C25, as stated: a payload submitted again yields, for each recipient, the
\* subject and the body that the first submission yielded, whenever the two
\* are handled.
C25_CompositionPure ==
    Resubmitted =>
        \A p \in PostsOf(events), q \in PostsOf(prev.events) :
            p.rcpt = q.rcpt => (p.subject = q.subject /\ p.html = q.html)

\* C25, amended: a payload submitted again yields the same visitor subject,
\* visitor body and business subject; the business body is the same but for
\* the time it shows, which is the time at which the request was handled:
\* each body is the composition of the payload at some time.
C25_CompositionPureButTime ==
    Resubmitted =>
        /\ \A p \in PostsOf(events), q \in PostsOf(prev.events) :
             p.rcpt = q.rcpt =>
               /\ p.subject = q.subject
               /\ p.rcpt = "visitor" => p.html = q.html
               /\ p.rcpt = "company" =>
                    [p.html EXCEPT !.time = 0] = [q.html EXCEPT !.time = 0]
        /\ \A p \in PostsOf(events) :
             /\ p.rcpt = "visitor" => p.html = Compose(req, 0).visitor_html
             /\ p.rcpt = "company" =>
                  /\ p.html.time \in 0..now
                  /\ p.html = Compose(req, p.html.time).company_html

\* the same payload was composed at two different times, both company posts
\* started
C25_Witness ==
    /\ Resubmitted
    /\ \E p \in PostsOf(events), q \in PostsOf(prev.events) :
         p.rcpt = "company" /\ q.rcpt = "company" /\ p.html.time # q.html.time

\* C26: a request to /contact makes no transport call. A POST flashes exactly
\* one message and writes at most one log entry, of level info, which it
\* writes exactly when the submission is valid; a GET flashes nothing and logs
\* nothing.
C26_ContactEffects ==
    (route = "contact" /\ pc = "done") =>
      /\ events = <<>>
      /\ composed = NoComposed
      /\ raised = "none"
      /\ req.body = "form" =>
           /\ Len(flashes) = 1
           /\ Len(log) <= 1
           /\ \A i \in 1..Len(log) : log[i].level = "info"
           /\ log # <<>> <=> ~FailsRequiredRule(req)
      /\ req.body = "get" => (log = <<>> /\ flashes = <<>>)

\* a valid form has been answered: one info entry, one flashed message
C26_Witness ==
    /\ ContactDone
    /\ ~FailsRequiredRule(req)
    /\ Len(log) = 1 /\ log[1].level = "info"
    /\ Len(flashes) = 1
    /\ events = <<>>

\* the post to rcpt returned (with whatever status)
Returned(rcpt) ==
    \E i \in 1..Len(events) : events[i].ev = "post_return" /\ events[i].rcpt = rcpt

\* the transport calls made for this request
NumPosts == Cardinality({i \in 1..Len(events) : events[i].ev = "post_start"})

\* C27: the API answers 200 with 'Emails sent successfully' exactly when a
\* key is configured, the payload passed validation and both posts returned
\* without raising, whatever status codes they returned; and whenever it
\* answers so, exactly two transport calls were made, one to each recipient.
C27_SentMessageIffBothReturned ==
    ApiDone =>
      /\ (resp.status = 200 /\ resp.body = SentBody)
           <=> (/\ key # ""
                /\ StructurallyValid(req)
                /\ Returned("visitor") /\ Returned("company")
                /\ ~SomePostRaised)
      /\ resp.body = SentBody =>
           /\ resp.status = 200
           /\ NumPosts = 2
           /\ NumStarted("visitor") = 1 /\ NumStarted("company") = 1

\* the message is returned although both posts returned a status other than 200
C27_Witness ==
    /\ ApiDone
    /\ resp = Json(200, SentBody)
    /\ StatusOf(events, "visitor") # 200
    /\ StatusOf(events, "company") # 200
    /\ NumPosts = 2

\* the number of catalogue articles
NumArticles == Len(BLOG_ARTICLES)

Min(a, b) == IF a < b THEN a ELSE b

\* position of key k in the catalogue
CataloguePosition(k) == CHOOSE i \in 1..Len(BLOG_ARTICLES) : BLOG_ARTICLES[i] = k

\* C28: for a known slug the related articles passed to the article page do
\* not contain the article viewed, contain no article twice, are
\* min(3, N - 1) in number, and are the first articles of the catalogue other
\* than the one viewed, in catalogue order.
C28_RelatedArticles ==
    (route = "blog" /\ pc = "done" /\ req.slug \in ArticleKeys) =>
      LET rel == resp.body.related_articles IN
      /\ resp.status = 200
      /\ resp.body.article = req.slug
      /\ \A i \in 1..Len(rel) : rel[i] \in ArticleKeys \ {req.slug}
      /\ \A i, j \in 1..Len(rel) : i # j => rel[i] # rel[j]
      /\ Len(rel) = Min(3, NumArticles - 1)
      /\ \A i, j \in 1..Len(rel) :
            i < j => CataloguePosition(rel[i]) < CataloguePosition(rel[j])
      /\ \A k \in ArticleKeys \ {req.slug} :
            (\E i \in 1..Len(rel) : rel[i] = k)
            \/ \A i \in 1..Len(rel) :
                  CataloguePosition(rel[i]) < CataloguePosition(k)

\* one of the first three articles is viewed: the list skips it and goes on
\* to the fourth
C28_Witness ==
    /\ route = "blog" /\ pc = "done"
    /\ req.slug = BLOG_ARTICLES[2]
    /\ resp.body.related_articles = <<BLOG_ARTICLES[1], BLOG_ARTICLES[3], BLOG_ARTICLES[4]>>
====
